---- MODULE Spec2Model ----
(***************************************************************************)
(* Model of scripts/build-data.mjs: the CSV parser (parseCsv), the cell    *)
(* coercions (normBool, splitGenres, toNumberOrNull) and the build         *)
(* pipeline (main).  A JavaScript string is a sequence of one-character    *)
(* strings; indices into text are 0-based as in the source (text[i] is     *)
(* t[i + 1] here).                                                         *)
(***************************************************************************)
EXTENDS Integers, Sequences, FiniteSets, TLC

VARIABLES inputExists, text, pc, ps, rows, header, idx, mapped, shows,
          warnings, errors, exitCode, written, fnArg, fnRes

vars == <<inputExists, text, pc, ps, rows, header, idx, mapped, shows,
          warnings, errors, exitCode, written, fnArg, fnRes>>

mainVars == <<inputExists, rows, header, idx, mapped, shows, warnings,
              errors, exitCode, written>>

fnVars == <<fnArg, fnRes>>

(***************************************************************************)
(* Characters and strings                                                  *)
(***************************************************************************)
QUOTE == "\""
COMMA == ","
LF == "\n"
CR == "\r"
SP == " "
TAB == "\t"

\* String.prototype.trim() removes white space and line terminators.
WhiteSpace == {SP, TAB, LF, CR}

RECURSIVE TrimStart(_)
TrimStart(s) ==
  IF s # <<>> /\ Head(s) \in WhiteSpace THEN TrimStart(Tail(s)) ELSE s

RECURSIVE TrimEnd(_)
TrimEnd(s) ==
  IF s # <<>> /\ s[Len(s)] \in WhiteSpace
    THEN TrimEnd(SubSeq(s, 1, Len(s) - 1))
    ELSE s

Trim(s) == TrimEnd(TrimStart(s))

(***************************************************************************)
(* parseCsv                                                                *)
(* The scan state is the record of the function's locals rows, row, cur,   *)
(* i, inQuotes.  Two history fields are added: fin lists every row the     *)
(* scan finalized (kept or dropped), keep lists the positions in fin of    *)
(* the rows that were pushed to rows.                                      *)
(***************************************************************************)
ScanInit ==
  [rows |-> <<>>, row |-> <<>>, cur |-> <<>>, i |-> 0, inQuotes |-> FALSE,
   fin |-> <<>>, keep |-> <<>>]

HasContentNoTrim(r) == \E k \in 1..Len(r) : r[k] # <<>>

\* row.some(c => c.trim() !== "")
HasContent(r) == \E k \in 1..Len(r) : Trim(r[k]) # <<>>

\* if (row.some(...)) rows.push(row), with the history fields
PushRow(s, r) ==
  LET f == Append(s.fin, r) IN
  IF HasContent(r)
    THEN [s EXCEPT !.rows = Append(@, r), !.fin = f,
                   !.keep = Append(@, Len(f))]
    ELSE [s EXCEPT !.fin = f]

CharAt(t, k) == IF k + 1 <= Len(t) THEN t[k + 1] ELSE "undefined"

InEscapedQuote(t, s) ==
  s.i < Len(t) /\ s.inQuotes /\ CharAt(t, s.i) = QUOTE
    /\ CharAt(t, s.i + 1) = QUOTE
InCloseQuote(t, s) ==
  s.i < Len(t) /\ s.inQuotes /\ CharAt(t, s.i) = QUOTE
    /\ CharAt(t, s.i + 1) # QUOTE
InQuotedChar(t, s) ==
  s.i < Len(t) /\ s.inQuotes /\ CharAt(t, s.i) # QUOTE
InOpenQuote(t, s) ==
  s.i < Len(t) /\ ~s.inQuotes /\ CharAt(t, s.i) = QUOTE
InComma(t, s) ==
  s.i < Len(t) /\ ~s.inQuotes /\ CharAt(t, s.i) = COMMA
InNewline(t, s) ==
  s.i < Len(t) /\ ~s.inQuotes /\ CharAt(t, s.i) = LF
InCarriageReturn(t, s) ==
  s.i < Len(t) /\ ~s.inQuotes /\ CharAt(t, s.i) = CR
InPlainChar(t, s) ==
  s.i < Len(t) /\ ~s.inQuotes /\ CharAt(t, s.i) \notin {QUOTE, COMMA, LF, CR}

EscapedQuoteStepSkipOne(t, s) ==
  [s EXCEPT !.cur = Append(@, QUOTE), !.i = @ + 1]

EscapedQuoteStep(t, s) ==
  [s EXCEPT !.cur = Append(@, QUOTE), !.i = @ + 2]

CloseQuoteStep(t, s) ==
  [s EXCEPT !.inQuotes = FALSE, !.i = @ + 1]

QuotedCharStep(t, s) ==
  [s EXCEPT !.cur = Append(@, CharAt(t, s.i)), !.i = @ + 1]

OpenQuoteStep(t, s) ==
  [s EXCEPT !.inQuotes = TRUE, !.i = @ + 1]

CommaStep(t, s) ==
  [s EXCEPT !.row = Append(@, s.cur), !.cur = <<>>, !.i = @ + 1]

NewlineStep(t, s) ==
  LET pushed == PushRow(s, Append(s.row, s.cur)) IN
  [pushed EXCEPT !.row = <<>>, !.cur = <<>>, !.i = @ + 1]

CarriageReturnStepAppend(t, s) ==
  [s EXCEPT !.cur = Append(@, CR), !.i = @ + 1]

CarriageReturnStep(t, s) ==
  [s EXCEPT !.i = @ + 1]

PlainCharStep(t, s) ==
  [s EXCEPT !.cur = Append(@, CharAt(t, s.i)), !.i = @ + 1]

FinishStepNoLastCell(t, s) ==
  PushRow(s, s.row)

\* after the loop: row.push(cur); push the row when it has content
FinishStep(t, s) ==
  LET r == Append(s.row, s.cur) IN
  [PushRow(s, r) EXCEPT !.row = r]

\* one iteration of the while loop
ScanStep(t, s) ==
  CASE InEscapedQuote(t, s)   -> EscapedQuoteStep(t, s)
    [] InCloseQuote(t, s)     -> CloseQuoteStep(t, s)
    [] InQuotedChar(t, s)     -> QuotedCharStep(t, s)
    [] InOpenQuote(t, s)      -> OpenQuoteStep(t, s)
    [] InComma(t, s)          -> CommaStep(t, s)
    [] InNewline(t, s)        -> NewlineStep(t, s)
    [] InCarriageReturn(t, s) -> CarriageReturnStep(t, s)
    [] OTHER                  -> PlainCharStep(t, s)

RECURSIVE ScanLoop(_, _)
ScanLoop(t, s) == IF s.i < Len(t) THEN ScanLoop(t, ScanStep(t, s)) ELSE s

ScanAll(t) == FinishStep(t, ScanLoop(t, ScanInit))

parseCsv(t) == ScanAll(t).rows

(***************************************************************************)
(* Case mapping (toUpperCase / toLowerCase on the Latin letters)           *)
(***************************************************************************)
UpperLetters ==
  <<"A", "B", "C", "D", "E", "F", "G", "H", "I", "J", "K", "L", "M",
    "N", "O", "P", "Q", "R", "S", "T", "U", "V", "W", "X", "Y", "Z">>
LowerLetters ==
  <<"a", "b", "c", "d", "e", "f", "g", "h", "i", "j", "k", "l", "m",
    "n", "o", "p", "q", "r", "s", "t", "u", "v", "w", "x", "y", "z">>

ToUpperChar(c) ==
  IF \E k \in 1..26 : LowerLetters[k] = c
    THEN UpperLetters[CHOOSE k \in 1..26 : LowerLetters[k] = c]
    ELSE c
ToLowerChar(c) ==
  IF \E k \in 1..26 : UpperLetters[k] = c
    THEN LowerLetters[CHOOSE k \in 1..26 : UpperLetters[k] = c]
    ELSE c

toUpperCase(s) == [k \in 1..Len(s) |-> ToUpperChar(s[k])]
toLowerCase(s) == [k \in 1..Len(s) |-> ToLowerChar(s[k])]

\* the value undefined (a missing argument); every string is a sequence of
\* one-character strings, so this value is no string.
Undefined == <<"undefined">>

\* (v || "")
OrEmpty(v) == IF v = Undefined THEN <<>> ELSE v

(***************************************************************************)
(* normBool                                                                *)
(***************************************************************************)
normBoolNoTrim(v) ==
  LET t == toUpperCase(OrEmpty(v)) IN
  t = <<"A">> \/ t = <<"Y">> \/ t = <<"Y", "E", "S">>
    \/ t = <<"T", "R", "U", "E">> \/ t = <<"1">>

normBool(v) ==
  LET t == toUpperCase(Trim(OrEmpty(v))) IN
  t = <<"A">> \/ t = <<"Y">> \/ t = <<"Y", "E", "S">>
    \/ t = <<"T", "R", "U", "E">> \/ t = <<"1">>

(***************************************************************************)
(* splitGenres                                                             *)
(***************************************************************************)
GenreDelims == {";", "|", COMMA}

\* String.prototype.split(/[;|,]/g): the pieces between delimiters, empty
\* pieces included.
RECURSIVE SplitOn(_, _, _)
SplitOn(s, delims, piece) ==
  IF s = <<>> THEN <<piece>>
  ELSE IF Head(s) \in delims
    THEN <<piece>> \o SplitOn(Tail(s), delims, <<>>)
    ELSE SplitOn(Tail(s), delims, Append(piece, Head(s)))

\* .map(s => s.trim())
TrimEach(ss) == [k \in 1..Len(ss) |-> Trim(ss[k])]
\* .map(s => s.toLowerCase())
LowerEach(ss) == [k \in 1..Len(ss) |-> toLowerCase(ss[k])]
\* .filter(Boolean) on strings
NonEmpty(s) == s # <<>>

splitGenresNoLower(v) ==
  LET raw == Trim(OrEmpty(v)) IN
  IF raw = <<>> THEN <<>>
  ELSE SelectSeq(TrimEach(SplitOn(raw, GenreDelims, <<>>)), NonEmpty)

splitGenres(v) ==
  LET raw == Trim(OrEmpty(v)) IN
  IF raw = <<>> THEN <<>>
  ELSE LowerEach(SelectSeq(TrimEach(SplitOn(raw, GenreDelims, <<>>)),
                           NonEmpty))

(***************************************************************************)
(* toNumberOrNull                                                          *)
(***************************************************************************)
Digits == <<"0", "1", "2", "3", "4", "5", "6", "7", "8", "9">>
IsDigit(c) == \E k \in 1..10 : Digits[k] = c
DigitVal(c) == (CHOOSE k \in 1..10 : Digits[k] = c) - 1

RECURSIVE DigitsVal(_)
DigitsVal(s) ==
  IF s = <<>> THEN 0
  ELSE 10 * DigitsVal(SubSeq(s, 1, Len(s) - 1)) + DigitVal(s[Len(s)])

AllDigits(s) == s # <<>> /\ \A k \in 1..Len(s) : IsDigit(s[k])

NaN == [nan |-> TRUE, val |-> 0]
Num(n) == [nan |-> FALSE, val |-> n]

\* Number(t) on strings of decimal digits, signs, white space and other
\* characters that start no numeric literal: surrounding white space is
\* ignored, the empty string is 0, an optionally signed run of digits is
\* its value, anything else is NaN.  (Fractions, exponents, radix prefixes
\* and Infinity are outside the characters modelled.)
Number(t) ==
  LET u == Trim(t) IN
  IF u = <<>> THEN Num(0)
  ELSE IF AllDigits(u) THEN Num(DigitsVal(u))
  ELSE IF Head(u) = "+" /\ AllDigits(Tail(u)) THEN Num(DigitsVal(Tail(u)))
  ELSE IF Head(u) = "-" /\ AllDigits(Tail(u)) THEN Num(0 - DigitsVal(Tail(u)))
  ELSE NaN

\* String.prototype.replace("%", ""): removes the first "%" only
RECURSIVE ReplaceFirstPercent(_)
ReplaceFirstPercent(s) ==
  IF s = <<>> THEN <<>>
  ELSE IF Head(s) = "%" THEN Tail(s)
  ELSE <<Head(s)>> \o ReplaceFirstPercent(Tail(s))

Null == [isNull |-> TRUE, val |-> 0]
Value(n) == [isNull |-> FALSE, val |-> n]

toNumberOrNull(v) ==
  LET t == ReplaceFirstPercent(Trim(OrEmpty(v)))
      n == Number(t)
  IN IF t = <<>> THEN Null
     ELSE IF n.nan THEN Null ELSE Value(n.val)

(***************************************************************************)
(* main                                                                    *)
(***************************************************************************)
Datum == <<"D", "a", "t", "u", "m">>
Nazev == <<"N", "a", "z", "e", "v">>
Soubor == <<"S", "o", "u", "b", "o", "r">>
Misto == <<"M", "i", "s", "t", "o">>
Mesto == <<"M", "e", "s", "t", "o">>
Hostovacka == <<"H", "o", "s", "t", "o", "v", "a", "c", "k", "a">>
StazenoZR == <<"S", "t", "a", "z", "e", "n", "o", "Z", "R">>
Zanry == <<"Z", "a", "n", "r", "y">>
Hodnoceni == <<"H", "o", "d", "n", "o", "c", "e", "n", "i">>
Komentar == <<"K", "o", "m", "e", "n", "t", "a", "r">>

required ==
  <<Datum, Nazev, Soubor, Misto, Mesto, Hostovacka, StazenoZR, Zanry,
    Hodnoceni, Komentar>>

\* rows[0].map(h => (h || "").trim())
HeaderOf(rs) == TrimEach(rs[1])

\* Object.fromEntries(header.map((h, i) => [h, i])): name -> 0-based
\* position, the last occurrence of a repeated name winning
IdxOf(hd) ==
  [h \in {hd[k] : k \in 1..Len(hd)} |->
     (CHOOSE k \in 1..Len(hd) :
        hd[k] = h /\ \A m \in (k + 1)..Len(hd) : hd[m] # h) - 1]

MissingColumnsButLast(ix) ==
  SelectSeq(SubSeq(required, 1, Len(required) - 1),
            LAMBDA r : r \notin DOMAIN ix)

\* required.filter(r => idx[r] === undefined)
MissingColumns(ix) ==
  SelectSeq(required, LAMBDA r : r \notin DOMAIN ix)

\* get(name) of the row callback: (r[idx[name]] ?? "").trim()
Get(r, ix, name) ==
  IF ix[name] + 1 <= Len(r) THEN Trim(r[ix[name] + 1]) ELSE <<>>

Record(r, ix) ==
  [date |-> Get(r, ix, Datum), title |-> Get(r, ix, Nazev),
   theatre |-> Get(r, ix, Soubor), place |-> Get(r, ix, Misto),
   city |-> Get(r, ix, Mesto),
   host |-> normBool(Get(r, ix, Hostovacka)),
   removed |-> normBool(Get(r, ix, StazenoZR)),
   genres |-> splitGenres(Get(r, ix, Zanry)),
   rating |-> toNumberOrNull(Get(r, ix, Hodnoceni)),
   comment |-> Get(r, ix, Komentar)]

\* if (!date || !title)
SkipsRowDateOnly(r, ix) == Get(r, ix, Datum) = <<>>

SkipsRow(r, ix) == Get(r, ix, Datum) = <<>> \/ Get(r, ix, Nazev) = <<>>

\* the callback of rows.slice(1).map: null (skipped, here <<>>) or the
\* record (here a one-element sequence)
MapRow(r, ix) == IF SkipsRow(r, ix) THEN <<>> ELSE <<Record(r, ix)>>

\* .filter(Boolean) on the mapped array
FilterShows(ms) ==
  LET kept == SelectSeq(ms, LAMBDA m : m # <<>>) IN
  [k \in 1..Len(kept) |-> kept[k][1]]

(***************************************************************************)
(* Inputs                                                                  *)
(***************************************************************************)
MaxLen == 5
MaxDataLines == 2
MaxArgLen == 4

SeqsUpTo(S, n) == UNION {[1..m -> S] : m \in 0..n}

RECURSIVE Join(_, _)
Join(ss, sep) ==
  IF ss = <<>> THEN <<>>
  ELSE IF Len(ss) = 1 THEN ss[1]
  ELSE ss[1] \o <<sep>> \o Join(Tail(ss), sep)

RECURSIVE Lines(_)
Lines(ls) == IF ls = <<>> THEN <<>> ELSE ls[1] \o <<LF>> \o Lines(Tail(ls))

\* texts the scanner is run on: every text over ScanAlphabet up to MaxLen
\* characters, and a few longer ones
ScanAlphabet == {"a", SP, COMMA, QUOTE, LF, CR}

SampleTexts ==
  {<<QUOTE, "a", COMMA, "b", LF, "c", QUOTE, QUOTE, "d", QUOTE>>,
   <<"a", COMMA, "b", CR, LF, "c", COMMA, "d", CR, LF>>,
   <<QUOTE, "a", QUOTE, CR, QUOTE, "b", QUOTE>>,
   <<"a", LF, SP, COMMA, SP, LF, LF, "b">>,
   <<QUOTE, "a", CR, LF, "b", QUOTE, COMMA, "c", CR, LF>>}

ScanTexts == SeqsUpTo(ScanAlphabet, MaxLen) \cup SampleTexts

\* CSV files main is run on: a header line followed by up to MaxDataLines
\* data lines
HeaderLines ==
  {Join(required, COMMA),
   <<SP>> \o Datum \o <<SP, COMMA, SP>> \o Join(Tail(required), COMMA)
     \o <<CR>>,
   Join(<<Nazev, Datum, <<"X">>>> \o Tail(Tail(required)), COMMA),
   Join(SubSeq(required, 1, 9), COMMA),
   <<COMMA, LF>> \o Join(required, COMMA)}

DataLines ==
  {<<"d", COMMA, "t">>,
   <<"e", COMMA, "u", COMMA, "s", COMMA, "m", COMMA, "c", COMMA, "A", COMMA, "N", COMMA, "a", ";", "B", COMMA, "8", "5", "%", COMMA, "k">>,
   <<COMMA, "t">>,
   <<"d", COMMA, SP>>,
   <<>>,
   <<SP, COMMA, SP, COMMA>>,
   <<"f", COMMA, "v", COMMA, COMMA, COMMA, COMMA, "y", COMMA, "1">>,
   <<QUOTE, "g", QUOTE, COMMA, QUOTE, "w", COMMA, "x", QUOTE>>,
   <<COMMA, COMMA, "s">>}

MainTexts ==
  {<<>>} \cup
  {Lines(<<h>> \o ls) : h \in HeaderLines,
                        ls \in SeqsUpTo(DataLines, MaxDataLines)}

\* arguments of the coercion functions
GenreAlphabet == {"a", "B", ";", "|", COMMA, SP}
NumberAlphabet == {"8", "5", "%", "-", SP, "n"}
Pads == {<<>>, <<SP>>, <<TAB>>}

BoolCores ==
  {<<"A">>,
   <<"a">>,
   <<"Y">>,
   <<"y">>,
   <<"Y", "E", "S">>,
   <<"y", "e", "s">>,
   <<"Y", "e", "s">>,
   <<"y", "E", "s">>,
   <<"T", "R", "U", "E">>,
   <<"t", "r", "u", "e">>,
   <<"T", "r", "u", "e">>,
   <<"1">>,
   <<"N">>,
   <<"n">>,
   <<>>,
   <<"0">>,
   <<"m", "a", "y", "b", "e">>,
   <<"A", "A">>,
   <<"Y", "E">>,
   <<"Y", "E", "S", "S">>,
   <<"1", "1">>,
   <<"A", "1">>,
   <<"N", "O">>,
   <<"F", "A", "L", "S", "E">>,
   <<"A", "N", "O">>,
   <<"T">>,
   <<"T", "R", "U">>,
   <<"A", SP, "A">>,
   <<"Y", "1">>}

FnSamples ==
  {<<"8", "5">>,
   <<"8", "5", "%">>,
   <<"n", "/", "a">>,
   <<"D", "r", "a", "m", "a", ";", SP, "c", "o", "m", "e", "d", "y", COMMA, "S", "i", "t", "e", SP, "S", "p", "e", "c", "i", "f", "i", "c">>,
   <<"8", "%", "5">>,
   <<"d", "r", "a", "m", "a", ";", "t", "r", "a", "g", "e", "d", "y">>,
   <<"9", "2">>}

BoolInputs == {p \o c \o q : p \in Pads, c \in BoolCores, q \in Pads}

FnInputs ==
  SeqsUpTo(GenreAlphabet, MaxArgLen) \cup SeqsUpTo(NumberAlphabet, MaxArgLen)
    \cup BoolInputs \cup FnSamples \cup {Undefined}

(***************************************************************************)
(* State machines                                                          *)
(***************************************************************************)
NoFn == [fn |-> "none"]

Idle ==
  /\ rows = <<>> /\ header = <<>> /\ idx = <<>> /\ mapped = <<>>
  /\ shows = <<>> /\ warnings = <<>> /\ errors = <<>>
  /\ exitCode = 0 /\ written = 0

\* ---- parseCsv, one loop iteration per step ----
InitScan ==
  /\ text \in ScanTexts
  /\ inputExists = TRUE
  /\ pc = "scan"
  /\ ps = ScanInit
  /\ Idle
  /\ fnArg = <<>> /\ fnRes = NoFn

EscapedQuote ==
  /\ pc = "scan"
  /\ InEscapedQuote(text, ps)
  /\ ps' = EscapedQuoteStep(text, ps)
  /\ UNCHANGED <<text, pc, mainVars, fnVars>>

CloseQuote ==
  /\ pc = "scan"
  /\ InCloseQuote(text, ps)
  /\ ps' = CloseQuoteStep(text, ps)
  /\ UNCHANGED <<text, pc, mainVars, fnVars>>

QuotedChar ==
  /\ pc = "scan"
  /\ InQuotedChar(text, ps)
  /\ ps' = QuotedCharStep(text, ps)
  /\ UNCHANGED <<text, pc, mainVars, fnVars>>

OpenQuote ==
  /\ pc = "scan"
  /\ InOpenQuote(text, ps)
  /\ ps' = OpenQuoteStep(text, ps)
  /\ UNCHANGED <<text, pc, mainVars, fnVars>>

Comma ==
  /\ pc = "scan"
  /\ InComma(text, ps)
  /\ ps' = CommaStep(text, ps)
  /\ UNCHANGED <<text, pc, mainVars, fnVars>>

Newline ==
  /\ pc = "scan"
  /\ InNewline(text, ps)
  /\ ps' = NewlineStep(text, ps)
  /\ UNCHANGED <<text, pc, mainVars, fnVars>>

CarriageReturn ==
  /\ pc = "scan"
  /\ InCarriageReturn(text, ps)
  /\ ps' = CarriageReturnStep(text, ps)
  /\ UNCHANGED <<text, pc, mainVars, fnVars>>

PlainChar ==
  /\ pc = "scan"
  /\ InPlainChar(text, ps)
  /\ ps' = PlainCharStep(text, ps)
  /\ UNCHANGED <<text, pc, mainVars, fnVars>>

EndOfInput ==
  /\ pc = "scan"
  /\ ps.i >= Len(text)
  /\ ps' = FinishStep(text, ps)
  /\ rows' = ps'.rows
  /\ pc' = "returned"
  /\ UNCHANGED <<text, inputExists, header, idx, mapped, shows, warnings,
                 errors, exitCode, written, fnVars>>

NextScan ==
  \/ EscapedQuote \/ CloseQuote \/ QuotedChar \/ OpenQuote \/ Comma
  \/ Newline \/ CarriageReturn \/ PlainChar \/ EndOfInput

SpecScan == InitScan /\ [][NextScan]_vars

\* ---- main ----
Init ==
  /\ text \in MainTexts
  /\ inputExists \in BOOLEAN
  /\ pc = "start"
  /\ ps = ScanInit
  /\ Idle
  /\ fnArg = <<>> /\ fnRes = NoFn

Exit(msg) ==
  /\ errors' = Append(errors, msg)
  /\ exitCode' = 1
  /\ pc' = "exited"

\* if (!fs.existsSync(INPUT)) { console.error(...); process.exit(1) }
InputMissing ==
  /\ pc = "start"
  /\ ~inputExists
  /\ Exit("Missing data/shows.csv")
  /\ UNCHANGED <<inputExists, text, ps, rows, header, idx, mapped, shows,
                 warnings, written, fnVars>>

\* readFileSync and parseCsv(csvText)
ReadAndParse ==
  /\ pc = "start"
  /\ inputExists
  /\ ps' = ScanAll(text)
  /\ rows' = ps'.rows
  /\ pc' = "parsed"
  /\ UNCHANGED <<inputExists, text, header, idx, mapped, shows, warnings,
                 errors, exitCode, written, fnVars>>

MinRows == 2

\* if (rows.length < 2) { console.error(...); process.exit(1) }
TooFewRows ==
  /\ pc = "parsed"
  /\ Len(rows) < MinRows
  /\ Exit("CSV is empty (need header + at least one row).")
  /\ UNCHANGED <<inputExists, text, ps, rows, header, idx, mapped, shows,
                 warnings, written, fnVars>>

\* const header = ...; const idx = ...
ResolveHeader ==
  /\ pc = "parsed"
  /\ Len(rows) >= MinRows
  /\ header' = HeaderOf(rows)
  /\ idx' = IdxOf(header')
  /\ pc' = "header"
  /\ UNCHANGED <<inputExists, text, ps, rows, mapped, shows, warnings,
                 errors, exitCode, written, fnVars>>

\* if (missing.length) { console.error(...); process.exit(1) }
ColumnsMissing ==
  /\ pc = "header"
  /\ MissingColumns(idx) # <<>>
  /\ Exit(<<"Missing columns in CSV header:", MissingColumns(idx)>>)
  /\ UNCHANGED <<inputExists, text, ps, rows, header, idx, mapped, shows,
                 warnings, written, fnVars>>

ColumnsPresent ==
  /\ pc = "header"
  /\ MissingColumns(idx) = <<>>
  /\ pc' = "map"
  /\ UNCHANGED <<inputExists, text, ps, rows, header, idx, mapped, shows,
                 warnings, errors, exitCode, written, fnVars>>

\* one call of the callback of rows.slice(1).map((r, rowIndex) => ...)
NormalizeRow ==
  /\ pc = "map"
  /\ Len(mapped) < Len(rows) - 1
  /\ LET rowIndex == Len(mapped)
         r == rows[rowIndex + 2]
     IN /\ mapped' = Append(mapped, MapRow(r, idx))
        /\ warnings' = IF SkipsRow(r, idx)
                         THEN Append(warnings, [row |-> rowIndex + 2])
                         ELSE warnings
  /\ UNCHANGED <<inputExists, text, pc, ps, rows, header, idx, shows,
                 errors, exitCode, written, fnVars>>

\* .filter(Boolean)
Filter ==
  /\ pc = "map"
  /\ Len(mapped) = Len(rows) - 1
  /\ shows' = FilterShows(mapped)
  /\ pc' = "write"
  /\ UNCHANGED <<inputExists, text, ps, rows, header, idx, mapped, warnings,
                 errors, exitCode, written, fnVars>>

\* fs.writeFileSync(OUTPUT, ...)
WriteOutput ==
  /\ pc = "write"
  /\ written' = written + 1
  /\ pc' = "done"
  /\ UNCHANGED <<inputExists, text, ps, rows, header, idx, mapped, shows,
                 warnings, errors, exitCode, fnVars>>

Next ==
  \/ InputMissing \/ ReadAndParse \/ TooFewRows \/ ResolveHeader
  \/ ColumnsMissing \/ ColumnsPresent \/ NormalizeRow \/ Filter
  \/ WriteOutput

Spec == Init /\ [][Next]_vars

\* ---- the coercion functions applied to one argument ----
InitFn ==
  /\ fnArg \in FnInputs
  /\ fnRes = NoFn
  /\ text = <<>>
  /\ inputExists = TRUE
  /\ pc = "fn"
  /\ ps = ScanInit
  /\ Idle

ApplyNormBool ==
  /\ pc = "fn"
  /\ fnRes = NoFn
  /\ fnRes' = [fn |-> "normBool", out |-> normBool(fnArg)]
  /\ UNCHANGED <<fnArg, text, pc, ps, mainVars>>

ApplySplitGenres ==
  /\ pc = "fn"
  /\ fnRes = NoFn
  /\ fnRes' = [fn |-> "splitGenres", out |-> splitGenres(fnArg)]
  /\ UNCHANGED <<fnArg, text, pc, ps, mainVars>>

ApplyToNumberOrNull ==
  /\ pc = "fn"
  /\ fnRes = NoFn
  /\ fnRes' = [fn |-> "toNumberOrNull", out |-> toNumberOrNull(fnArg)]
  /\ UNCHANGED <<fnArg, text, pc, ps, mainVars>>

\* the row callback of main on a row in the required column order whose
\* Hostovacka cell is the argument
OtherCells == {<<>>, <<"A">>, <<"N">>, <<SP, "y", "e", "s">>}

ApplyRowCallback ==
  /\ pc = "fn"
  /\ fnRes = NoFn
  /\ fnArg # Undefined
  /\ \E w \in OtherCells :
       LET r == <<<<"d">>, <<"t">>, <<>>, <<>>, <<>>, fnArg, w>> IN
       fnRes' = [fn |-> "row", row |-> r, out |-> MapRow(r, IdxOf(required))]
  /\ UNCHANGED <<fnArg, text, pc, ps, mainVars>>

NextFn ==
  \/ ApplyNormBool \/ ApplySplitGenres \/ ApplyToNumberOrNull
  \/ ApplyRowCallback

SpecFn == InitFn /\ [][NextFn]_vars

(***************************************************************************)
(* Reference notions used by the properties.  They are stated on the text  *)
(* itself, not through the scanner's step operators.                       *)
(***************************************************************************)
IsBlank(c) == \A k \in 1..Len(c) : c[k] \in WhiteSpace
RowIsBlank(r) == \A k \in 1..Len(r) : IsBlank(r[k])

\* the role of every character of t in the CSV grammar: "open" and "close"
\* quotes, the two halves "esc1" "esc2" of a doubled quote, "q" for any
\* other character inside quotes, "u" for any other character outside
RECURSIVE KindsFrom(_, _, _)
KindsFrom(t, k, quoted) ==
  IF k > Len(t) THEN <<>>
  ELSE IF quoted /\ t[k] = QUOTE /\ k < Len(t) /\ t[k + 1] = QUOTE
    THEN <<"esc1", "esc2">> \o KindsFrom(t, k + 2, TRUE)
  ELSE IF quoted /\ t[k] = QUOTE
    THEN <<"close">> \o KindsFrom(t, k + 1, FALSE)
  ELSE IF quoted THEN <<"q">> \o KindsFrom(t, k + 1, TRUE)
  ELSE IF t[k] = QUOTE THEN <<"open">> \o KindsFrom(t, k + 1, TRUE)
  ELSE <<"u">> \o KindsFrom(t, k + 1, FALSE)

Kinds(t) == KindsFrom(t, 1, FALSE)

EndsQuoted(t) ==
  t # <<>> /\ Kinds(t)[Len(t)] \in {"open", "q", "esc2"}

\* t without the characters at the positions in drop
RECURSIVE Without(_, _, _)
Without(t, drop, k) ==
  IF k > Len(t) THEN <<>>
  ELSE IF k \in drop THEN Without(t, drop, k + 1)
  ELSE <<t[k]>> \o Without(t, drop, k + 1)

UnquotedCRs(t) == {k \in 1..Len(t) : t[k] = CR /\ Kinds(t)[k] = "u"}
StripUnquotedCR(t) == Without(t, UnquotedCRs(t), 1)

CRsOfCRLF(t) == {k \in 1..(Len(t) - 1) : t[k] = CR /\ t[k + 1] = LF}
CrlfToLf(t) == Without(t, CRsOfCRLF(t), 1)

\* a closing quote, then only carriage returns, then a quote
CRJoinsQuotes(t) ==
  \E k \in 1..Len(t), j \in 1..Len(t) :
    /\ k + 1 < j
    /\ Kinds(t)[k] = "close"
    /\ t[j] = QUOTE
    /\ \A m \in (k + 1)..(j - 1) : t[m] = CR

QuotedCRLF(t) == \E k \in CRsOfCRLF(t) : Kinds(t)[k] # "u"

\* the text of a quoted field body with every doubled quote read as one
RECURSIVE Unescape(_)
Unescape(b) ==
  IF b = <<>> THEN <<>>
  ELSE IF Head(b) = QUOTE /\ Len(b) >= 2 /\ b[2] = QUOTE
    THEN <<QUOTE>> \o Unescape(Tail(Tail(b)))
  ELSE <<Head(b)>> \o Unescape(Tail(b))

\* b is a quoted field body: each quote in it is half of a doubled quote
RECURSIVE IsEscapedBody(_)
IsEscapedBody(b) ==
  IF b = <<>> THEN TRUE
  ELSE IF Head(b) = QUOTE
    THEN Len(b) >= 2 /\ b[2] = QUOTE /\ IsEscapedBody(Tail(Tail(b)))
  ELSE IsEscapedBody(Tail(b))

IsOneQuotedField(t) ==
  /\ Len(t) >= 2 /\ t[1] = QUOTE /\ t[Len(t)] = QUOTE
  /\ IsEscapedBody(SubSeq(t, 2, Len(t) - 1))

Body(t) == SubSeq(t, 2, Len(t) - 1)

Has(s, c) == \E k \in 1..Len(s) : s[k] = c

IsSuffix(x, s) ==
  Len(x) <= Len(s) /\ SubSeq(s, Len(s) - Len(x) + 1, Len(s)) = x

(***************************************************************************)
(* Properties of parseCsv                                                  *)
(***************************************************************************)
Returned == pc = "returned"

\* C1: in quoted mode a doubled quote appends one quote and advances past
\* both characters, a lone quote leaves quoted mode, and every other
\* character (comma and newline included) is appended to the cell; in no
\* case is a cell or a row ended.  Hence a text that is one quoted field
\* parses to exactly one row of one cell holding the unescaped body.
C1_QuotedStep ==
  (pc = "scan" /\ ps.inQuotes /\ ps.i < Len(text)) =>
    LET ch == text[ps.i + 1]
        doubled == ps.i + 2 <= Len(text) /\ text[ps.i + 2] = QUOTE
    IN /\ ps'.row = ps.row /\ ps'.rows = ps.rows
       /\ IF ch = QUOTE /\ doubled
            THEN ps'.cur = Append(ps.cur, QUOTE) /\ ps'.i = ps.i + 2
                   /\ ps'.inQuotes
          ELSE IF ch = QUOTE
            THEN ps'.cur = ps.cur /\ ps'.i = ps.i + 1 /\ ~ps'.inQuotes
          ELSE ps'.cur = Append(ps.cur, ch) /\ ps'.i = ps.i + 1
                 /\ ps'.inQuotes

C1_OneCell ==
  (Returned /\ IsOneQuotedField(text) /\ ~IsBlank(Unescape(Body(text)))) =>
    rows = << <<Unescape(Body(text))>> >>

C1_QuotedLiteral == [][C1_QuotedStep]_vars /\ []C1_OneCell

C1_Witness ==
  /\ Returned /\ IsOneQuotedField(text)
  /\ Has(Body(text), COMMA) /\ Has(Body(text), LF)
  /\ Has(Unescape(Body(text)), QUOTE)
  /\ Len(rows) = 1 /\ Len(rows[1]) = 1

\* C2: every returned row has a cell that is not blank; the returned rows
\* are, in order, exactly the finalized rows that have such a cell, so no
\* row with content is dropped and no all-blank row is kept; a text made of
\* commas and white space only yields no row.
C2_NoBlankRows ==
  /\ \A k \in 1..Len(ps.rows) : ~RowIsBlank(ps.rows[k])
  /\ ps.rows = SelectSeq(ps.fin, LAMBDA r : ~RowIsBlank(r))
  /\ Returned =>
       /\ rows = ps.rows
       /\ (\A k \in 1..Len(text) : text[k] \in WhiteSpace \cup {COMMA})
            => rows = <<>>

C2_Witness ==
  /\ Returned
  /\ Len(rows) >= 2
  /\ \E k \in 2..(Len(ps.fin) - 1) : RowIsBlank(ps.fin[k]) /\ Len(ps.fin[k]) >= 2
  /\ ~RowIsBlank(ps.fin[Len(ps.fin)])

\* C9 (as stated): the rows are those of the text with every carriage
\* return outside quoted fields deleted, and those of the text with every
\* CRLF replaced by LF.
C9_Original ==
  Returned =>
    /\ rows = parseCsv(StripUnquotedCR(text))
    /\ rows = parseCsv(CrlfToLf(text))

\* C9 (amended): an unquoted carriage return is consumed without changing
\* the cell, the row or the rows.  Unless a run of unquoted carriage
\* returns stands between a closing quote and a following quote, the rows
\* are those of the text with the unquoted carriage returns deleted; unless
\* a CRLF lies inside a quoted field, the rows are those of the text with
\* every CRLF replaced by LF.
C9_CRStep ==
  (pc = "scan" /\ ~ps.inQuotes /\ ps.i < Len(text) /\ text[ps.i + 1] = CR) =>
    /\ ps'.cur = ps.cur /\ ps'.row = ps.row /\ ps'.rows = ps.rows
    /\ ps'.fin = ps.fin /\ ~ps'.inQuotes /\ ps'.i = ps.i + 1

C9_SameRows ==
  Returned =>
    /\ ~CRJoinsQuotes(text) => rows = parseCsv(StripUnquotedCR(text))
    /\ ~QuotedCRLF(text) => rows = parseCsv(CrlfToLf(text))

C9_CarriageReturnIgnored == [][C9_CRStep]_vars /\ []C9_SameRows

C9_Witness ==
  /\ Returned
  /\ CRsOfCRLF(text) # {} /\ ~QuotedCRLF(text) /\ ~CRJoinsQuotes(text)
  /\ Len(rows) >= 2
  /\ CrlfToLf(text) # text
  /\ rows = parseCsv(CrlfToLf(text))

\* C10: at end of input the accumulated cell is appended to the row and the
\* row is finalized as a newline does.  A text whose scan ends outside
\* quotes has the same rows as the text followed by one newline.  A text
\* whose scan ends inside a quoted field is scanned to its end all the
\* same, and the unescaped characters after the opening quote end the last
\* cell of the last row.
LastOpen(t) ==
  CHOOSE k \in 1..Len(t) :
    Kinds(t)[k] = "open" /\ \A m \in (k + 1)..Len(t) : Kinds(t)[m] # "open"

C10_EndOfInput ==
  /\ ps.i <= Len(text)
  /\ Returned =>
       /\ ps.i = Len(text)
       /\ ps.fin # <<>> /\ ps.fin[Len(ps.fin)] = ps.row
       /\ ps.row # <<>> /\ ps.row[Len(ps.row)] = ps.cur
       /\ ~EndsQuoted(text) =>
            /\ ~ps.inQuotes
            /\ rows = parseCsv(text \o <<LF>>)
       /\ EndsQuoted(text) =>
            /\ ps.inQuotes
            /\ IsSuffix(Unescape(SubSeq(text, LastOpen(text) + 1, Len(text))),
                        ps.row[Len(ps.row)])
            /\ ~RowIsBlank(ps.row) => rows[Len(rows)] = ps.row

C10_Witness ==
  /\ Returned /\ ~EndsQuoted(text)
  /\ text # <<>> /\ text[Len(text)] \notin {LF, CR}
  /\ Len(rows) >= 2

C10_WitnessUnterminated ==
  /\ Returned /\ EndsQuoted(text)
  /\ Len(text) - LastOpen(text) >= 2
  /\ rows # <<>>

(***************************************************************************)
(* Properties of main                                                      *)
(***************************************************************************)
\* the cell of row r under the last header cell named name, absent cells
\* being empty
CellOf(hd, r, name) ==
  LET pos == CHOOSE k \in 1..Len(hd) :
               Trim(hd[k]) = name
                 /\ \A m \in (k + 1)..Len(hd) : Trim(hd[m]) # name
  IN IF pos <= Len(r) THEN r[pos] ELSE <<>>

HasRequired(r) ==
  ~IsBlank(CellOf(rows[1], r, Datum)) /\ ~IsBlank(CellOf(rows[1], r, Nazev))

Normalized == pc \in {"write", "done"}

\* C3: the emitted records are the records of exactly the data rows whose
\* Datum and Nazev cells are both non-blank, in input order; every other
\* data row yields one skip diagnostic; records and diagnostics together
\* number the data rows.
C3_RequiredFields ==
  Normalized =>
    LET data == Tail(rows)
        kept == SelectSeq(data, HasRequired)
    IN /\ Len(shows) = Len(kept)
       /\ \A j \in 1..Len(kept) :
            /\ shows[j] = Record(kept[j], idx)
            /\ shows[j].date = Trim(CellOf(rows[1], kept[j], Datum))
            /\ shows[j].title = Trim(CellOf(rows[1], kept[j], Nazev))
       /\ Len(warnings) = Len(data) - Len(kept)
       /\ Len(shows) + Len(warnings) = Len(data)

C3_Witness ==
  /\ pc = "done"
  /\ Len(rows) = 3
  /\ Len(shows) = 1 /\ Len(warnings) = 1
  /\ HasRequired(rows[3]) /\ ~HasRequired(rows[2])
  /\ ~IsBlank(CellOf(rows[1], rows[2], Datum))

\* the positions in rows of the data rows skipped so far, in order
SkippedPositions ==
  SelectSeq([k \in 1..Len(mapped) |-> k + 1],
            LAMBDA p : mapped[p - 1] = <<>>)

\* C4: with the header as row 1 of the CSV input, the row number in the
\* diagnostic of a skipped row is the position of that row among all rows
\* of the input, blank rows included.
C4_OriginalRowNumber ==
  (pc \in {"map", "write", "done"} /\ ps.keep[1] = 1) =>
    /\ Len(warnings) = Len(SkippedPositions)
    /\ \A j \in 1..Len(warnings) :
         warnings[j].row = ps.keep[SkippedPositions[j]]

\* C5: the output is written at most once, and only for an existing input
\* with at least two rows and a header naming every required column; when
\* one of these fails the run exits with code 1 and a diagnostic, no row is
\* normalized and nothing is written.
\* rows is what parseCsv returned for the input (empty before the call)
Writable ==
  /\ inputExists
  /\ Len(rows) >= 2
  /\ LET names == {Trim(rows[1][k]) : k \in 1..Len(rows[1])} IN
     \A n \in 1..Len(required) : required[n] \in names

C5_WriteOnlyWhenValid ==
  /\ written <= 1
  /\ written = 1 <=> pc = "done"
  /\ pc \in {"map", "write", "done"} => Writable /\ exitCode = 0
  /\ pc = "parsed" => inputExists /\ exitCode = 0
  /\ pc = "header" => inputExists /\ Len(rows) >= 2 /\ exitCode = 0
  /\ (mapped # <<>> \/ shows # <<>> \/ written # 0) => Writable
  /\ pc = "exited" <=> exitCode = 1
  /\ pc = "exited" <=> errors # <<>>
  /\ pc = "exited" => ~Writable /\ Len(errors) = 1

C5_Witness ==
  /\ pc = "exited" /\ exitCode = 1 /\ inputExists
  /\ Len(rows) >= 2 /\ MissingColumns(idx) = <<Komentar>>
  /\ written = 0

C5_WitnessWritten == pc = "done" /\ written = 1 /\ Len(shows) >= 1

(***************************************************************************)
(* Properties of the coercion functions                                    *)
(***************************************************************************)
\* C6: a percent sign is stripped only when it ends the trimmed value; the
\* result is null for an empty remainder and for a remainder that is no
\* numeric literal, else the number, unclamped.
StripTrailingPercent(s) ==
  IF s # <<>> /\ s[Len(s)] = "%" THEN SubSeq(s, 1, Len(s) - 1) ELSE s

C6_TrailingPercent ==
  (fnRes.fn = "toNumberOrNull") =>
    LET t == StripTrailingPercent(Trim(OrEmpty(fnArg))) IN
    /\ t = <<>> => fnRes.out = Null
    /\ (t # <<>> /\ Number(t).nan) => fnRes.out = Null
    /\ (t # <<>> /\ ~Number(t).nan) => fnRes.out = Value(Number(t).val)
    /\ Has(t, "%") => fnRes.out = Null

\* C7: splitGenres of a blank value is empty; otherwise the result is the
\* pieces between the delimiters, trimmed, the empty ones dropped, in
\* lowercase and in order, duplicates kept; no token is empty, has
\* surrounding white space, contains a delimiter or an uppercase letter.
DelimAt(v) == {k \in 1..Len(v) : v[k] \in {";", "|", COMMA}}

\* the n-th cut of v: position 0, the delimiter positions in increasing
\* order, and Len(v) + 1
Cut(v, n) ==
  IF n = 0 THEN 0
  ELSE IF n > Cardinality(DelimAt(v)) THEN Len(v) + 1
  ELSE CHOOSE k \in DelimAt(v) :
         Cardinality({m \in DelimAt(v) : m < k}) = n - 1

Pieces(v) ==
  [n \in 1..(Cardinality(DelimAt(v)) + 1) |->
     SubSeq(v, Cut(v, n - 1) + 1, Cut(v, n) - 1)]

IsUpper(c) == \E k \in 1..26 : UpperLetters[k] = c

C7_SplitGenres ==
  (fnRes.fn = "splitGenres") =>
    LET v == OrEmpty(fnArg)
        out == fnRes.out
        kept == SelectSeq(Pieces(v), LAMBDA p : ~IsBlank(p))
    IN /\ IsBlank(v) => out = <<>>
       /\ Len(out) = Len(kept)
       /\ \A j \in 1..Len(out) :
            /\ out[j] = toLowerCase(Trim(kept[j]))
            /\ out[j] # <<>>
            /\ out[j][1] \notin WhiteSpace
            /\ out[j][Len(out[j])] \notin WhiteSpace
            /\ \A k \in 1..Len(out[j]) :
                 out[j][k] \notin {";", "|", COMMA} /\ ~IsUpper(out[j][k])

C7_Witness ==
  /\ fnRes.fn = "splitGenres"
  /\ Len(fnRes.out) = 2
  /\ fnRes.out[1] = fnRes.out[2]
  /\ \E k \in 1..Len(fnArg) : IsUpper(fnArg[k])
  /\ Has(fnArg, SP)

\* C8: normBool is true exactly for a value that, apart from surrounding
\* white space and letter case, is one of A, Y, YES, TRUE, 1; host and
\* removed of a record follow this rule on the Hostovacka and StazenoZR
\* cells.
TruthyTokens ==
  {<<"A">>, <<"Y">>, <<"Y", "E", "S">>, <<"T", "R", "U", "E">>, <<"1">>}

IsTruthy(v) ==
  /\ v # Undefined
  /\ \E tok \in TruthyTokens :
       \E a \in 1..Len(v) :
         /\ a + Len(tok) - 1 <= Len(v)
         /\ \A k \in 1..(a - 1) : v[k] \in WhiteSpace
         /\ \A k \in (a + Len(tok))..Len(v) : v[k] \in WhiteSpace
         /\ \A k \in 1..Len(tok) :
              v[a + k - 1] = tok[k] \/ ToUpperChar(v[a + k - 1]) = tok[k]

C8_NormBool ==
  /\ fnRes.fn = "normBool" => (fnRes.out <=> IsTruthy(fnArg))
  /\ fnRes.fn = "row" =>
       /\ Len(fnRes.out) = 1
       /\ fnRes.out[1].host <=> IsTruthy(fnRes.row[6])
       /\ fnRes.out[1].removed <=> IsTruthy(fnRes.row[7])

C8_Witness ==
  /\ fnRes.fn = "row"
  /\ fnRes.out[1].host /\ ~fnRes.out[1].removed
  /\ Has(fnRes.row[6], SP) /\ Has(fnRes.row[6], "e")
  /\ fnRes.row[7] # <<>>

C8_WitnessFalse ==
  /\ fnRes.fn = "normBool" /\ ~fnRes.out
  /\ fnArg = Undefined

====
